---- MODULE Spec2Model ----
(***************************************************************************)
(* Petoncle agent service: the gRPC servicer ChatServiceServicer, the      *)
(* keyword Orchestrator, the LangGraph workflow of MultiAgentSystem and    *)
(* the general ChatAgent with its bounded conversation history.            *)
(*                                                                         *)
(* A text is a sequence of characters; a character is a one-character      *)
(* string, except the three that are written by name: "NUL" (U+0000),      *)
(* "e_acute" / "E_ACUTE" (U+00E9 / U+00C9) and "e_grave" (U+00E8).         *)
(*                                                                         *)
(* Left out: the request's context lines (they only extend the system      *)
(* prompt of the general agent and of the scribe), ChatAgent.reset (the    *)
(* service never calls it) and exceptions that are not subclasses of       *)
(* Exception (SendMessage does not catch them).                            *)
(***************************************************************************)
EXTENDS Integers, Sequences, FiniteSets, TLC

(***************************************************************************)
(* Bounds of the model.                                                    *)
(***************************************************************************)
\* Worker threads of the server's pool that take requests at the same time.
NumWorkers == 2
\* Callers (sessions) that send requests.
NumCallers == 2
\* Cap on the ChatAgent.chat calls of a run of the concurrent server.
MaxChats == 2
\* Cap on the ChatAgent.chat calls of a run of the sequential server.
MaxSeqChats == 11
\* Longest short raw message built character by character.
MaxLen == 3
\* Most vocabulary words concatenated into one message.
MaxWords == 3

(***************************************************************************)
(* Program constants.                                                      *)
(***************************************************************************)
\* agent_service.py:58   if len(request.message) > 10000
MAX_MESSAGE_LENGTH == 10000
\* chat_agent.py:12      MAX_HISTORY_MESSAGES = 20
MAX_HISTORY_MESSAGES == 20

(***************************************************************************)
(* Characters and the str methods the code uses.                           *)
(***************************************************************************)
NUL == "NUL"

\* The characters str.strip() removes from both ends (str.isspace()).
Whitespace == {" ", "\t", "\n"}

\* str.lower(), character by character.
LowerOf ==
    [c \in {"A", "C", "E", "M", "P", "R", "T", "V", "E_ACUTE"} |->
        CASE c = "A" -> "a" [] c = "C" -> "c" [] c = "E" -> "e"
          [] c = "M" -> "m" [] c = "P" -> "p" [] c = "R" -> "r"
          [] c = "T" -> "t" [] c = "V" -> "v" [] c = "E_ACUTE" -> "e_acute"]

lower(s) == [i \in 1..Len(s) |-> IF s[i] \in DOMAIN LowerOf THEN LowerOf[s[i]] ELSE s[i]]

\* keyword in message: the keyword occurs as a contiguous substring.
In(k, s) ==
    \E i \in 1..(Len(s) - Len(k) + 1) : \A j \in 1..Len(k) : s[i + j - 1] = k[j]

\* str.replace('\x00', '')
replace_nul(s) == SelectSeq(s, LAMBDA c : c # NUL)

\* str.strip(): drop the leading and the trailing whitespace.
strip(s) ==
    LET n     == Len(s)
        first == CHOOSE i \in 1..(n + 1) :
                    /\ (i = n + 1 \/ s[i] \notin Whitespace)
                    /\ \A j \in 1..(i - 1) : s[j] \in Whitespace
        last  == CHOOSE i \in 0..n :
                    /\ (i = 0 \/ s[i] \notin Whitespace)
                    /\ \A j \in (i + 1)..n : s[j] \in Whitespace
    IN  IF first > n THEN << >> ELSE SubSeq(s, first, last)

\* A sanitize that strips the whitespace and forgets the null bytes.
sanitize_strip_only(raw) == strip(raw)

\* agent_service.py:65   request.message.replace('\x00', '').strip()
sanitize(raw) == strip(replace_nul(raw))

(***************************************************************************)
(* Orchestrator (orchestrator.py).                                         *)
(***************************************************************************)
\* The keys of INTENT_KEYWORDS in the order the dict literal inserts them.
INTENTS == << "command_help", "research", "report" >>

INTENT_KEYWORDS ==
    [ command_help |-> <<
        <<"c", "o", "m", "m", "e", "n", "t">>,
        <<"s", "y", "n", "t", "a", "x", "e">>,
        <<"u", "t", "i", "l", "i", "s", "e", "r">>,
        <<"c", "o", "m", "m", "a", "n", "d", "e">>,
        <<"c", "o", "m", "m", "a", "n", "d">>,
        <<"o", "p", "t", "i", "o", "n">>,
        <<"f", "l", "a", "g">>,
        <<"p", "a", "r", "a", "m", "e_grave", "t", "r", "e">>,
        <<"e", "x", "e", "m", "p", "l", "e">> >>,
      research |-> <<
        <<"c", "v", "e">>,
        <<"v", "u", "l", "n", "e_acute", "r", "a", "b", "i", "l", "i", "t", "e_acute">>,
        <<"v", "u", "l", "n", "e", "r", "a", "b", "i", "l", "i", "t", "y">>,
        <<"e", "x", "p", "l", "o", "i", "t">>,
        <<"r", "e", "c", "h", "e", "r", "c", "h", "e">>,
        <<"c", "h", "e", "r", "c", "h", "e", "r">>,
        <<"t", "r", "o", "u", "v", "e", "r">>,
        <<"p", "o", "c">>,
        <<"p", "r", "o", "o", "f", " ", "o", "f", " ", "c", "o", "n", "c", "e", "p", "t">>,
        <<"s", "e", "c", "u", "r", "i", "t", "y", " ", "a", "d", "v", "i", "s", "o", "r", "y">> >>,
      report |-> <<
        <<"r", "a", "p", "p", "o", "r", "t">>,
        <<"r", "e", "p", "o", "r", "t">>,
        <<"r", "e_acute", "s", "u", "m", "e_acute">>,
        <<"s", "u", "m", "m", "a", "r", "y">>,
        <<"h", "i", "s", "t", "o", "r", "i", "q", "u", "e">>,
        <<"h", "i", "s", "t", "o", "r", "y">>,
        <<"l", "o", "g", "s">>,
        <<"d", "o", "c", "u", "m", "e", "n", "t", "a", "t", "i", "o", "n">>,
        <<"d", "o", "c", "u", "m", "e", "n", "t", "e", "r">> >> ]

\* sum(1 for keyword in keywords if keyword in message_lower)
score(keywords, message_lower) ==
    Len(SelectSeq(keywords, LAMBDA keyword : In(keyword, message_lower)))

\* The dict scores after the loop over INTENT_KEYWORDS.items().
scores(message) ==
    LET message_lower == lower(message)
    IN  [ command_help |-> score(INTENT_KEYWORDS.command_help, message_lower),
          research     |-> score(INTENT_KEYWORDS.research, message_lower),
          report       |-> score(INTENT_KEYWORDS.report, message_lower) ]

\* max(iterable): the largest value.
max_value(sc) == CHOOSE v \in {sc[k] : k \in DOMAIN sc} : \A k \in DOMAIN sc : sc[k] <= v

\* max(scores, key=scores.get): the keys are visited in insertion order and
\* the running best is replaced only by a strictly greater score.
RECURSIVE max_key_from(_, _, _)
max_key_from(sc, i, best) ==
    IF i > Len(INTENTS) THEN best
    ELSE max_key_from(sc, i + 1, IF sc[INTENTS[i]] > sc[best] THEN INTENTS[i] ELSE best)

\* A max that keeps the last of the keys with the greatest score.
max_key_last(sc) ==
    LET best == { i \in 1..Len(INTENTS) : \A j \in 1..Len(INTENTS) : sc[INTENTS[j]] <= sc[INTENTS[i]] }
    IN  INTENTS[CHOOSE i \in best : \A j \in best : j <= i]

max_key(sc) == max_key_from(sc, 2, INTENTS[1])

\* A detect_intent that returns the first intent with any keyword match.
detect_intent_first_match(message) ==
    LET sc  == scores(message)
        hit == { i \in 1..Len(INTENTS) : sc[INTENTS[i]] > 0 }
    IN  IF hit = {} THEN "general" ELSE INTENTS[CHOOSE i \in hit : \A j \in hit : i <= j]

detect_intent(message) ==
    LET sc == scores(message)
    IN  IF max_value(sc) > 0 THEN max_key(sc) ELSE "general"

\* A routing table with the specialists of research and report exchanged.
routing_exchanged ==
    [ command_help |-> "toolsmith", research |-> "scribe",
      report |-> "researcher", general |-> "general" ]

\* The routing table of Orchestrator.route.
routing ==
    [ command_help |-> "toolsmith", research |-> "researcher",
      report |-> "scribe", general |-> "general" ]

route(message) ==
    LET intent == detect_intent(message)
    IN  [agent |-> routing[intent], intent |-> intent, message |-> message]

(***************************************************************************)
(* Texts of the model: what callers send, what the upstream API answers    *)
(* and what its failures say.                                              *)
(***************************************************************************)
T_hi       == <<"h", "i">>
T_ok       == <<"o", "k">>
T_cve      == <<"c", "v", "e">>
T_comment  == <<"c", "o", "m", "m", "e", "n", "t">>
T_logs     == <<"l", "o", "g", "s">>
T_timeout  == <<"t", "i", "m", "e", "o", "u", "t">>
T_connection == <<"c", "o", "n", "n", "e", "c", "t", "i", "o", "n">>
T_network  == <<"n", "e", "t", "w", "o", "r", "k">>
T_timed_out_after ==
    <<"M", "i", "s", "t", "r", "a", "l", " ", "A", "P", "I", " ", "c", "a", "l", "l", " ",
      "t", "i", "m", "e", "d", " ", "o", "u", "t", " ", "a", "f", "t", "e", "r", " ",
      "3", "0", ".", "0", "s">>
T_connection_error ==
    <<"M", "i", "s", "t", "r", "a", "l", " ", "A", "P", "I", " ", "c", "o", "n", "n", "e",
      "c", "t", "i", "o", "n", " ", "e", "r", "r", "o", "r", ":", " ">>

Workers == 1..NumWorkers
Callers == 1..NumCallers

\* What the upstream API can answer on success.
Replies == { T_ok }

\* What self.client.chat.complete can raise: the exception's class (ValueError
\* stands for ValueError and its subclasses, Exception for every other
\* subclass of Exception) and its str().
UpstreamErrors ==
    { [cls |-> "Exception",  text |-> <<"R", "e", "a", "d", " ", "T", "i", "m", "e", "o", "u", "t">>],
      [cls |-> "Exception",  text |-> <<"t", "i", "m", "e", "d", " ", "o", "u", "t">>],
      [cls |-> "Exception",  text |-> <<"C", "o", "n", "n", "e", "c", "t", "i", "o", "n", " ", "r", "e", "f", "u", "s", "e", "d">>],
      [cls |-> "Exception",  text |-> <<"b", "a", "d", " ", "g", "a", "t", "e", "w", "a", "y">>],
      [cls |-> "ValueError", text |-> <<"b", "a", "d", " ", "j", "s", "o", "n">>] }

\* The outcomes of one upstream call.
Outcomes ==
    { [ok |-> TRUE,  content |-> r, exc |-> [cls |-> "", text |-> << >>]] : r \in Replies } \cup
    { [ok |-> FALSE, content |-> << >>, exc |-> e] : e \in UpstreamErrors }

(***************************************************************************)
(* The state.                                                              *)
(***************************************************************************)
VARIABLES
    conversation_history,  \* ChatAgent.conversation_history of the one general_agent
    pc,                    \* where each worker thread is in SendMessage
    request,               \* the ChatRequest each worker is handling, with its caller
    state,                 \* the AgentState of each worker's graph run
    messages,              \* chat's local `messages`: what is sent upstream
    assistant_message,     \* chat's local `assistant_message`
    kept,                  \* the slice conversation_history[-MAX:] before it is stored
    response,              \* the ChatResponse and status code each worker returns
    upstream_calls,        \* calls of client.chat.complete made for the request
    invoked,               \* specialists invoked for the request, in order
    classified,            \* calls of detect_intent made for the request
    raised,                \* the exception of the request's upstream call, as the
                           \* call raised it and as it left the specialist
    chats_left             \* ChatAgent.chat calls the callers may still cause

vars == << conversation_history, pc, request, state, messages, assistant_message,
           kept, response, upstream_calls, invoked, classified, raised, chats_left >>

locals == << messages, assistant_message, kept >>
ghosts == << upstream_calls, invoked, classified, raised >>

NoRequest  == [message |-> << >>, caller |-> 0]
NoState    == [message |-> << >>, intent |-> "", agent |-> "", response |-> << >>,
               agent_used |-> "", steps |-> << >>]
NoException == [cls |-> "", text |-> << >>]
NoRaise     == [upstream |-> NoException, specialist |-> NoException]
NoResponse == [marker |-> "", text |-> "", detail |-> << >>, agent |-> "",
               code |-> "", details |-> ""]

\* A role-tagged message of the history; caller records who submitted the
\* request that appended it.
Message(role, content, caller) == [role |-> role, content |-> content, caller |-> caller]

\* Ten complete exchanges of caller 1: the history of a servicer that has
\* served ten general requests one after the other.
RECURSIVE exchanges(_)
exchanges(n) ==
    IF n = 0 THEN << >>
    ELSE exchanges(n - 1) \o << Message("user", T_hi, 1), Message("assistant", T_ok, 1) >>

WarmHistory == exchanges(MAX_HISTORY_MESSAGES \div 2)

InitialHistories == { << >>, WarmHistory }

(***************************************************************************)
(* ChatServiceServicer.SendMessage (agent_service.py): the responses.      *)
(***************************************************************************)
WARNING_MARKER == "warning_sign"     \* the prefix U+26A0 U+FE0F
ERROR_MARKER   == "cross_mark"       \* the prefix U+274C

\* The three returns of the validation block: context.set_code(INVALID_ARGUMENT),
\* context.set_details(text), ChatResponse(message = marker text, agent = "error").
invalid_argument(text) ==
    [marker |-> WARNING_MARKER, text |-> text, detail |-> << >>, agent |-> "error",
     code |-> "INVALID_ARGUMENT", details |-> text]

\* A validation that sanitizes before it tests the length.
validate_sanitize_first(raw) ==
    IF raw = << >> THEN invalid_argument("Message cannot be empty")
    ELSE IF sanitize(raw) = << >>
         THEN invalid_argument("Message contains invalid characters")
    ELSE IF Len(raw) > MAX_MESSAGE_LENGTH
         THEN invalid_argument("Message too long (max 10000 characters)")
    ELSE NoResponse

\* The validation block: the response it returns, or NoResponse when the
\* message passes.
validate(raw) ==
    IF raw = << >> THEN invalid_argument("Message cannot be empty")
    ELSE IF Len(raw) > MAX_MESSAGE_LENGTH
         THEN invalid_argument("Message too long (max 10000 characters)")
    ELSE IF sanitize(raw) = << >>
         THEN invalid_argument("Message contains invalid characters")
    ELSE NoResponse

\* The two except clauses of SendMessage, for an exception e that leaves
\* agent_system.process.
except_response(e) ==
    IF e.cls = "ValueError"
    THEN [marker |-> WARNING_MARKER, text |-> "Validation error: ", detail |-> e.text,
          agent |-> "error", code |-> "INVALID_ARGUMENT", details |-> "str(e)"]
    ELSE [marker |-> ERROR_MARKER, text |-> "Error: ", detail |-> e.text,
          agent |-> "error", code |-> "INTERNAL", details |-> "str(e)"]

\* The normal return: ChatResponse(message = response_text, agent = agent_used);
\* no status code is set, so the call ends OK.
ok_response(response_text, agent_used) ==
    [marker |-> "", text |-> "", detail |-> response_text, agent |-> agent_used,
     code |-> "OK", details |-> ""]

\* The except clause of ChatAgent.chat: the exception that leaves chat.
chat_except(e) ==
    LET error_msg == lower(e.text)
    IN  IF In(T_timeout, error_msg)
        THEN [cls |-> "TimeoutError", text |-> T_timed_out_after]
        ELSE IF In(T_connection, error_msg) \/ In(T_network, error_msg)
        THEN [cls |-> "ConnectionError", text |-> T_connection_error \o e.text]
        ELSE e

(***************************************************************************)
(* The steps of one worker thread.                                         *)
(***************************************************************************)
\* The workers whose request may still reach ChatAgent.chat.
before_chat == { t \in DOMAIN pc : pc[t] \in { "SendMessage", "orchestrate", "general" } }

\* The server hands a caller's request to an idle worker of the pool. The
\* callers stop sending when the requests in flight can use up the cap on
\* chat calls.
Receive(t, c, m) ==
    /\ pc[t] = "idle"
    /\ chats_left > Cardinality(before_chat)
    /\ request' = [request EXCEPT ![t] = [message |-> m, caller |-> c]]
    /\ pc' = [pc EXCEPT ![t] = "SendMessage"]
    /\ UNCHANGED << conversation_history, state, locals, response, ghosts, chats_left >>

\* SendMessage up to the call of graph.invoke: validation, sanitization and
\* the initial AgentState of MultiAgentSystem.process.
SendMessage(t) ==
    /\ pc[t] = "SendMessage"
    /\ LET raw     == request[t].message
           failure == validate(raw)
       IN  IF failure # NoResponse
           THEN /\ response' = [response EXCEPT ![t] = failure]
                /\ pc' = [pc EXCEPT ![t] = "return"]
                /\ UNCHANGED state
           ELSE /\ state' = [state EXCEPT ![t] = [NoState EXCEPT !.message = sanitize(raw)]]
                /\ pc' = [pc EXCEPT ![t] = "orchestrate"]
                /\ UNCHANGED response
    /\ UNCHANGED << conversation_history, request, locals, ghosts, chats_left >>

\* _orchestrate_node and the conditional edge _route_to_agent.
orchestrate_node(t) ==
    /\ pc[t] = "orchestrate"
    /\ LET r == route(state[t].message) IN
       /\ state' = [state EXCEPT ![t].intent = r.intent, ![t].agent = r.agent,
                                 ![t].steps = Append(@, "orchestrate")]
       /\ pc' = [pc EXCEPT ![t] = r.agent]
    /\ classified' = [classified EXCEPT ![t] = @ + 1]
    /\ UNCHANGED << conversation_history, request, locals, response,
                    upstream_calls, invoked, raised, chats_left >>

\* A stateless specialist node (Toolsmith, Researcher, Scribe .process): one
\* call of client.chat.complete; its exception leaves process unchanged and
\* reaches SendMessage's except clauses.
specialist_node(t, name, o) ==
    /\ pc[t] = name
    /\ invoked' = [invoked EXCEPT ![t] = Append(@, name)]
    /\ upstream_calls' = [upstream_calls EXCEPT ![t] = @ + 1]
    /\ IF o.ok
       THEN /\ state' = [state EXCEPT ![t].response = o.content, ![t].agent_used = name,
                                      ![t].steps = Append(@, name)]
            /\ response' = [response EXCEPT ![t] = ok_response(o.content, name)]
       ELSE /\ response' = [response EXCEPT ![t] = except_response(o.exc)]
            /\ UNCHANGED state
    /\ raised' = [raised EXCEPT ![t] = [upstream |-> o.exc, specialist |-> o.exc]]
    /\ pc' = [pc EXCEPT ![t] = "return"]
    /\ UNCHANGED << conversation_history, request, locals, classified, chats_left >>

toolsmith_node(t)  == \E o \in Outcomes : specialist_node(t, "toolsmith", o)
researcher_node(t) == \E o \in Outcomes : specialist_node(t, "researcher", o)
scribe_node(t)     == \E o \in Outcomes : specialist_node(t, "scribe", o)

\* _general_node calls ChatAgent.chat; chat_agent.py:63
\*     self.conversation_history.append({"role": "user", "content": message})
chat_append_user(t) ==
    /\ pc[t] = "general"
    /\ invoked' = [invoked EXCEPT ![t] = Append(@, "general")]
    /\ conversation_history' =
          Append(conversation_history,
                 Message("user", state[t].message, request[t].caller))
    /\ chats_left' = chats_left - 1
    /\ pc' = [pc EXCEPT ![t] = "chat_messages"]
    /\ UNCHANGED << request, state, locals, response, upstream_calls, classified,
                    raised >>

\* chat_agent.py:69   messages = [system prompt] + self.conversation_history
chat_messages(t) ==
    /\ pc[t] = "chat_messages"
    /\ messages' = [messages EXCEPT ![t] =
          << Message("system", << >>, request[t].caller) >> \o conversation_history]
    /\ pc' = [pc EXCEPT ![t] = "chat_complete"]
    /\ UNCHANGED << conversation_history, request, state, assistant_message, kept,
                    response, ghosts, chats_left >>

\* A variant of chat_complete whose except clause takes the user message back
\* out of the history before it re-raises.
chat_complete_rollback(t) ==
    /\ pc[t] = "chat_complete"
    /\ upstream_calls' = [upstream_calls EXCEPT ![t] = @ + 1]
    /\ \E o \in Outcomes :
          IF o.ok
          THEN /\ assistant_message' = [assistant_message EXCEPT ![t] = o.content]
               /\ pc' = [pc EXCEPT ![t] = "chat_append_assistant"]
               /\ UNCHANGED << conversation_history, response, raised >>
          ELSE /\ conversation_history' =
                     SubSeq(conversation_history, 1, Len(conversation_history) - 1)
               /\ response' = [response EXCEPT ![t] = except_response(chat_except(o.exc))]
               /\ raised' = [raised EXCEPT ![t] =
                     [upstream |-> o.exc, specialist |-> chat_except(o.exc)]]
               /\ pc' = [pc EXCEPT ![t] = "return"]
               /\ UNCHANGED assistant_message
    /\ UNCHANGED << request, state, messages, kept, invoked, classified, chats_left >>

\* chat_agent.py:74-91   the upstream call and chat's except clause.
chat_complete(t) ==
    /\ pc[t] = "chat_complete"
    /\ upstream_calls' = [upstream_calls EXCEPT ![t] = @ + 1]
    /\ \E o \in Outcomes :
          IF o.ok
          THEN /\ assistant_message' = [assistant_message EXCEPT ![t] = o.content]
               /\ pc' = [pc EXCEPT ![t] = "chat_append_assistant"]
               /\ UNCHANGED << response, raised >>
          ELSE /\ response' = [response EXCEPT ![t] = except_response(chat_except(o.exc))]
               /\ raised' = [raised EXCEPT ![t] =
                     [upstream |-> o.exc, specialist |-> chat_except(o.exc)]]
               /\ pc' = [pc EXCEPT ![t] = "return"]
               /\ UNCHANGED assistant_message
    /\ UNCHANGED << conversation_history, request, state, messages, kept, invoked,
                    classified, chats_left >>

\* chat_agent.py:94   self.conversation_history.append({"role": "assistant", ...})
chat_append_assistant(t) ==
    /\ pc[t] = "chat_append_assistant"
    /\ conversation_history' =
          Append(conversation_history,
                 Message("assistant", assistant_message[t], request[t].caller))
    /\ pc' = [pc EXCEPT ![t] = "chat_trim"]
    /\ UNCHANGED << request, state, locals, response, ghosts, chats_left >>

\* chat_agent.py:100-102   the test of the length and, when it is exceeded,
\* the slice self.conversation_history[-self.MAX_HISTORY_MESSAGES:].
chat_trim(t) ==
    /\ pc[t] = "chat_trim"
    /\ IF Len(conversation_history) > MAX_HISTORY_MESSAGES
       THEN /\ kept' = [kept EXCEPT ![t] =
                   SubSeq(conversation_history,
                          Len(conversation_history) - MAX_HISTORY_MESSAGES + 1,
                          Len(conversation_history))]
            /\ pc' = [pc EXCEPT ![t] = "chat_trim_store"]
       ELSE /\ pc' = [pc EXCEPT ![t] = "general_return"]
            /\ UNCHANGED kept
    /\ UNCHANGED << conversation_history, request, state, messages, assistant_message,
                    response, ghosts, chats_left >>

\* chat_agent.py:102   the assignment self.conversation_history = <the slice>.
\* The slice is a new list, evaluated before the attribute is stored, and the
\* interpreter may switch threads between the two.
chat_trim_store(t) ==
    /\ pc[t] = "chat_trim_store"
    /\ conversation_history' = kept[t]
    /\ pc' = [pc EXCEPT ![t] = "general_return"]
    /\ UNCHANGED << request, state, locals, response, ghosts, chats_left >>

\* chat returns assistant_message; _general_node, process and SendMessage
\* build the normal response.
general_return(t) ==
    /\ pc[t] = "general_return"
    /\ state' = [state EXCEPT ![t].response = assistant_message[t],
                              ![t].agent_used = "general",
                              ![t].steps = Append(@, "general")]
    /\ response' = [response EXCEPT ![t] = ok_response(assistant_message[t], "general")]
    /\ pc' = [pc EXCEPT ![t] = "return"]
    /\ UNCHANGED << conversation_history, request, locals, ghosts, chats_left >>

\* SendMessage has returned its ChatResponse: the server sends it and the
\* worker is free again.
Reply(t) ==
    /\ pc[t] = "return"
    /\ pc' = [pc EXCEPT ![t] = "idle"]
    /\ request' = [request EXCEPT ![t] = NoRequest]
    /\ state' = [state EXCEPT ![t] = NoState]
    /\ response' = [response EXCEPT ![t] = NoResponse]
    /\ messages' = [messages EXCEPT ![t] = << >>]
    /\ assistant_message' = [assistant_message EXCEPT ![t] = << >>]
    /\ kept' = [kept EXCEPT ![t] = << >>]
    /\ upstream_calls' = [upstream_calls EXCEPT ![t] = 0]
    /\ invoked' = [invoked EXCEPT ![t] = << >>]
    /\ classified' = [classified EXCEPT ![t] = 0]
    /\ raised' = [raised EXCEPT ![t] = NoRaise]
    /\ UNCHANGED << conversation_history, chats_left >>

Step(t) ==
    \/ SendMessage(t)
    \/ orchestrate_node(t)
    \/ toolsmith_node(t)
    \/ researcher_node(t)
    \/ scribe_node(t)
    \/ chat_append_user(t)
    \/ chat_messages(t)
    \/ chat_complete(t)
    \/ chat_append_assistant(t)
    \/ chat_trim(t)
    \/ chat_trim_store(t)
    \/ general_return(t)
    \/ Reply(t)

(***************************************************************************)
(* The specifications.                                                     *)
(***************************************************************************)
\* ChatServiceServicer.__init__ / MultiAgentSystem.__init__ / ChatAgent.__init__
\* and the idle worker pool of serve().
Constructed(history, chats) ==
    /\ conversation_history = history
    /\ pc = [t \in Workers |-> "idle"]
    /\ request = [t \in Workers |-> NoRequest]
    /\ state = [t \in Workers |-> NoState]
    /\ messages = [t \in Workers |-> << >>]
    /\ assistant_message = [t \in Workers |-> << >>]
    /\ kept = [t \in Workers |-> << >>]
    /\ response = [t \in Workers |-> NoResponse]
    /\ upstream_calls = [t \in Workers |-> 0]
    /\ invoked = [t \in Workers |-> << >>]
    /\ classified = [t \in Workers |-> 0]
    /\ raised = [t \in Workers |-> NoRaise]
    /\ chats_left = chats

\* The messages the callers of the running server send: an empty one, one of
\* whitespace, one for each specialist.
ServiceMsgs == { << >>, << " " >>, T_hi, T_cve, T_comment, T_logs }

\* Spec: the server with its pool of workers, taking requests from several
\* callers at the same time, freshly constructed or after ten exchanges.
Init == \E h \in InitialHistories : Constructed(h, MaxChats)

Next ==
    \/ \E t \in Workers, c \in Callers, m \in ServiceMsgs : Receive(t, c, m)
    \/ \E t \in Workers : Step(t)

Spec == Init /\ [][Next]_vars

\* SpecSeq: the freshly constructed server handling one request after the
\* other (one worker busy at a time), all from one caller.
InitSeq == Constructed(<< >>, MaxSeqChats)

NextSeq ==
    \/ \E m \in ServiceMsgs : Receive(1, 1, m)
    \/ Step(1)

SpecSeq == InitSeq /\ [][NextSeq]_vars

(***************************************************************************)
(* SpecIn: one request with any raw message of the input sets, handled by  *)
(* a server that is freshly constructed or has served ten exchanges.       *)
(***************************************************************************)
\* All sequences over S of length at most n.
RECURSIVE SeqsUpTo(_, _)
SeqsUpTo(S, n) ==
    IF n = 0 THEN { << >> }
    ELSE LET shorter == SeqsUpTo(S, n - 1)
         IN  shorter \cup { Append(s, c) : s \in shorter, c \in S }

\* n copies of the character c.
Pad(c, n) == [i \in 1..n |-> c]

\* The characters the validation tells apart: the null byte, two kinds of
\* whitespace, a letter.
ValidationChars == { NUL, " ", "\t", "a" }

ShortMsgs == SeqsUpTo(ValidationChars, MaxLen)

\* Raw messages of exactly MAX_MESSAGE_LENGTH and MAX_MESSAGE_LENGTH + 1
\* characters: a run of one character, and a run of whitespace or of null
\* bytes that ends with a letter.
LongMsgs ==
    LET lengths == { MAX_MESSAGE_LENGTH, MAX_MESSAGE_LENGTH + 1 }
    IN  { Pad(c, n) : c \in ValidationChars, n \in lengths } \cup
        { Append(Pad(c, n - 1), "a") : c \in ValidationChars \ { "a" }, n \in lengths }

\* Words and pieces of words, with and without keywords, in both cases.
Vocabulary ==
    { T_comment,
      <<"c", "o", "m", "m", "a", "n", "d", "e">>,
      T_cve,
      <<"C", "V", "E">>,
      <<"r", "e">>,
      <<"p", "o", "r", "t">>,
      T_logs,
      <<"R", "E_ACUTE", "s", "u", "m", "e_acute">>,
      <<" ">> }

RECURSIVE Concat(_)
Concat(ws) == IF ws = << >> THEN << >> ELSE Head(ws) \o Concat(Tail(ws))

WordMsgs == { Concat(ws) : ws \in SeqsUpTo(Vocabulary, MaxWords) }

InputMsgs == ShortMsgs \cup LongMsgs \cup WordMsgs

InitIn == \E h \in InitialHistories : Constructed(h, 1)

NextIn ==
    \/ \E m \in InputMsgs : Receive(1, 1, m)
    \/ Step(1)

SpecIn == InitIn /\ [][NextIn]_vars

(***************************************************************************)
(* The claims.                                                             *)
(***************************************************************************)
\* Worker t's SendMessage has finished and its response is about to be sent.
Returned(t) == pc[t] = "return"

\* Worker t's request is past the validation block.
Validated(t) == pc[t] \notin { "idle", "SendMessage" }

\* Every character of the text is in S.
OnlyOf(raw, S) == \A i \in 1..Len(raw) : raw[i] \in S

\* The error the validation order of the claim assigns to a raw message
\* ("" when it passes all three checks).
ExpectedError(raw) ==
    IF Len(raw) = 0 THEN "Message cannot be empty"
    ELSE IF Len(raw) > 10000 THEN "Message too long (max 10000 characters)"
    ELSE IF OnlyOf(raw, Whitespace \cup { NUL }) THEN "Message contains invalid characters"
    ELSE ""

\* The keyword occurs in the text: some window of the text equals it.
Occurs(k, s) == \E i \in 0..(Len(s) - Len(k)) : \A j \in 1..Len(k) : s[i + j] = k[j]

\* The number of the keywords of the list that occur in the text, each
\* counted once.
Count(keywords, low) == Cardinality({ i \in 1..Len(keywords) : Occurs(keywords[i], low) })

Categories == { "command_help", "research", "report" }

\* For each category, the number of its keywords that occur in the
\* lower-cased text, each counted once.
Counts(text) ==
    LET low == lower(text)
    IN  [ command_help |-> Count(INTENT_KEYWORDS.command_help, low),
          research     |-> Count(INTENT_KEYWORDS.research, low),
          report       |-> Count(INTENT_KEYWORDS.report, low) ]

\* Worker t's request has been classified.
Classified(t) == state[t].intent # ""

\* C1. A request whose raw message fails a validation check ends with the
\* error of the first check that fails, in the order empty, longer than 10000,
\* empty after sanitization; with status invalid-argument and agent "error";
\* without any classification, specialist or upstream call; and the step that
\* rejects it leaves the conversation history as it was.
C1_RejectedAsFirstFailingCheck ==
    \A t \in Workers :
        (Validated(t) /\ ExpectedError(request[t].message) # "") =>
            /\ Returned(t)
            /\ response[t].text = ExpectedError(request[t].message)
            /\ response[t].marker = WARNING_MARKER
            /\ response[t].code = "INVALID_ARGUMENT"
            /\ response[t].agent = "error"
            /\ classified[t] = 0
            /\ invoked[t] = << >>
            /\ upstream_calls[t] = 0

C1_RejectionKeepsHistory ==
    \A t \in Workers :
        (pc[t] = "SendMessage" /\ pc'[t] = "return") =>
            conversation_history' = conversation_history

\* C1, both parts: the state property above in every reachable state, and
\* the rejecting step of SendMessage leaving the conversation history alone.
C1_ValidationOrder ==
    [] C1_RejectedAsFirstFailingCheck /\ [][C1_RejectionKeepsHistory]_vars

\* C1 witness: a message that is too long and also nothing but whitespace
\* has been rejected as too long while ten exchanges are in the history.
C1_Witness ==
    \E t \in Workers :
        /\ Returned(t)
        /\ Len(request[t].message) > MAX_MESSAGE_LENGTH
        /\ OnlyOf(request[t].message, Whitespace)
        /\ response[t].text = "Message too long (max 10000 characters)"
        /\ conversation_history = WarmHistory

\* C5 as stated: every non-empty message of whitespace only or of null bytes
\* only, of any length, gets the sanitization error.
C5_Original ==
    \A t \in Workers :
        LET raw == request[t].message IN
        (Validated(t) /\ Len(raw) > 0 /\ (OnlyOf(raw, Whitespace) \/ OnlyOf(raw, { NUL }))) =>
            response[t].text = "Message contains invalid characters"

\* C5 as amended: a message of whitespace only or of null bytes only gets the
\* sanitization error when it has 1 to 10000 characters, and the too-long
\* error when it has more.
C5_Amended ==
    \A t \in Workers :
        LET raw == request[t].message IN
        (Validated(t) /\ Len(raw) > 0 /\ (OnlyOf(raw, Whitespace) \/ OnlyOf(raw, { NUL }))) =>
            /\ Returned(t)
            /\ response[t].code = "INVALID_ARGUMENT"
            /\ response[t].text =
                  IF Len(raw) <= 10000 THEN "Message contains invalid characters"
                  ELSE "Message too long (max 10000 characters)"

\* C5 witness: a message of exactly 10000 null bytes has been rejected with
\* the sanitization error.
C5_Witness ==
    \E t \in Workers :
        /\ Returned(t)
        /\ Len(request[t].message) = MAX_MESSAGE_LENGTH
        /\ OnlyOf(request[t].message, { NUL })
        /\ response[t].text = "Message contains invalid characters"

\* C4. The intent of a classified message is general exactly when no keyword
\* of any category occurs in it; otherwise it is a category with the greatest
\* keyword count; and when only one category has a keyword in the message, it
\* is that category.
C4_IntentHasMaximalScore ==
    \A t \in Workers :
        Classified(t) =>
            \A n \in { Counts(state[t].message) } :
            LET intent == state[t].intent
            IN  /\ (intent = "general") <=> (\A c \in Categories : n[c] = 0)
                /\ intent # "general" =>
                      /\ intent \in Categories
                      /\ \A c \in Categories : n[c] <= n[intent]
                /\ \A c \in Categories :
                      (n[c] > 0 /\ \A d \in Categories \ { c } : n[d] = 0) => intent = c

\* C4 witness: a message with one command_help keyword and two report
\* keywords has been classified as report.
C4_Witness ==
    \E t \in Workers :
        /\ Classified(t)
        /\ state[t].intent = "report"
        /\ Counts(state[t].message) = [command_help |-> 1, research |-> 0, report |-> 2]

\* The place of a category in the precedence order of the claim.
Precedence(c) == CASE c = "command_help" -> 1 [] c = "research" -> 2 [] c = "report" -> 3

\* C9. When several categories share the greatest positive keyword count, the
\* intent is the one of them that comes first in the order command_help,
\* research, report: the result is a function of the message alone, so the
\* same message is always classified alike; and the classifying step changes
\* nothing but the worker's own AgentState, position and call count.
C9_TieGoesToFirstCategory ==
    \A t \in Workers :
        Classified(t) =>
            \A n \in { Counts(state[t].message) } :
            LET top == { c \in Categories : n[c] > 0 /\ \A d \in Categories : n[d] <= n[c] }
            IN  top # {} =>
                    /\ state[t].intent \in top
                    /\ \A c \in top : Precedence(state[t].intent) <= Precedence(c)

C9_ClassifyingChangesNoState ==
    \A t \in Workers :
        (pc[t] = "orchestrate" /\ pc'[t] # "orchestrate") =>
            /\ UNCHANGED << conversation_history, request, locals, response,
                            upstream_calls, invoked, raised, chats_left >>
            /\ \A u \in Workers \ { t } :
                  state'[u] = state[u] /\ pc'[u] = pc[u] /\ classified'[u] = classified[u]
            /\ state'[t].message = state[t].message

\* C9, both parts: ties go to the first category of the precedence order in
\* every reachable state, and the classifying step changes no other state.
C9_DeterministicTieBreak ==
    [] C9_TieGoesToFirstCategory /\ [][C9_ClassifyingChangesNoState]_vars

\* C9 witness: a message with one keyword of each of the three categories has
\* been classified as command_help.
C9_Witness ==
    \E t \in Workers :
        /\ Classified(t)
        /\ state[t].intent = "command_help"
        /\ Counts(state[t].message) = [command_help |-> 1, research |-> 1, report |-> 1]

\* Worker t is inside ChatAgent.chat, between the append of its user message
\* and the end of the trim.
InChat(t) ==
    pc[t] \in { "chat_messages", "chat_complete", "chat_append_assistant",
                "chat_trim", "chat_trim_store" }

\* C2. Whenever no chat call is in progress, the conversation history holds
\* at most MAX_HISTORY_MESSAGES messages.
C2_HistoryBounded ==
    (\A t \in Workers : ~ InChat(t)) => Len(conversation_history) <= 20

\* C3. Exchanges against the conversation history are serialized: no two
\* workers are inside ChatAgent.chat at the same time.
C3_ExchangesSerialized ==
    \A t, u \in Workers : (t # u /\ InChat(t)) => ~ InChat(u)

\* C6. Every finished request carries a response: a validation failure has
\* status invalid-argument, every failure of a validated request has status
\* internal, and every failure has a marker and the agent "error".
C6_FailuresReportedByKind ==
    \A t \in Workers :
        Returned(t) =>
            /\ response[t].code \in { "OK", "INVALID_ARGUMENT", "INTERNAL" }
            /\ ExpectedError(request[t].message) # "" => response[t].code = "INVALID_ARGUMENT"
            /\ (ExpectedError(request[t].message) = "" /\ response[t].code # "OK") =>
                  response[t].code = "INTERNAL"
            /\ response[t].code # "OK" =>
                  /\ response[t].marker \in { WARNING_MARKER, ERROR_MARKER }
                  /\ response[t].agent = "error"

\* C7. Whenever no chat call is in progress, the conversation history is a
\* sequence of complete exchanges: its length is even and its roles alternate
\* user, assistant, starting with user.
C7_CompleteExchanges ==
    (\A t \in Workers : ~ InChat(t)) =>
        /\ Len(conversation_history) % 2 = 0
        /\ \A i \in 1..Len(conversation_history) :
              conversation_history[i].role = IF i % 2 = 1 THEN "user" ELSE "assistant"

\* C8. The messages a worker sends upstream for a caller's general request
\* were all submitted by that caller.
C8_UpstreamSeesOwnSession ==
    \A t \in Workers :
        pc[t] = "chat_complete" =>
            \A i \in 1..Len(messages[t]) : messages[t][i].caller = request[t].caller

\* The specialist the claim registers for each category.
Registered(category) ==
    CASE category = "command_help" -> "toolsmith"
      [] category = "research"     -> "researcher"
      [] category = "report"       -> "scribe"
      [] category = "general"      -> "general"

\* C10. A request never invokes more than one specialist nor makes more than
\* one upstream call; a finished request that passed validation was classified
\* once, invoked exactly the specialist registered for its category, made
\* exactly one upstream call whether it succeeded or failed, and on success
\* reports that specialist as the agent.
C10_OneSpecialistOneCall ==
    \A t \in Workers :
        /\ Len(invoked[t]) <= 1
        /\ upstream_calls[t] <= 1
        /\ (Returned(t) /\ ExpectedError(request[t].message) = "") =>
              /\ classified[t] = 1
              /\ invoked[t] = << Registered(state[t].intent) >>
              /\ upstream_calls[t] = 1
              /\ response[t].code = "OK" => response[t].agent = Registered(state[t].intent)

\* C10 witness: a report request has finished with a failure after the scribe
\* alone was invoked and made one upstream call.
C10_Witness ==
    \E t \in Workers :
        /\ Returned(t)
        /\ state[t].intent = "report"
        /\ invoked[t] = << "scribe" >>
        /\ upstream_calls[t] = 1
        /\ response[t].code = "INTERNAL"

\* The upstream failures that are timeouts: the call did not answer in time.
TimedOut(e) ==
    e.text \in { <<"R", "e", "a", "d", " ", "T", "i", "m", "e", "o", "u", "t">>,
                 <<"t", "i", "m", "e", "d", " ", "o", "u", "t">> }

\* The upstream failures that are connectivity failures.
ConnectivityFailure(e) ==
    e.text = <<"C", "o", "n", "n", "e", "c", "t", "i", "o", "n", " ", "r", "e", "f", "u", "s", "e", "d">>

\* C11. Whichever specialist served a finished request, an upstream call that
\* timed out left the specialist as TimeoutError and a connectivity failure as
\* ConnectionError, and the request was reported with status INTERNAL and the
\* text of that re-raised exception.
C11_UpstreamFailuresReraised ==
    \A t \in Workers :
        Returned(t) =>
            /\ TimedOut(raised[t].upstream) =>
                  /\ raised[t].specialist.cls = "TimeoutError"
                  /\ response[t].code = "INTERNAL"
                  /\ response[t].detail = T_timed_out_after
            /\ ConnectivityFailure(raised[t].upstream) =>
                  /\ raised[t].specialist.cls = "ConnectionError"
                  /\ response[t].code = "INTERNAL"

\* The last n messages of a history, in their order.
Last(h, n) == IF Len(h) <= n THEN h ELSE SubSeq(h, Len(h) - n + 1, Len(h))

\* A worker's step that completes a trim: the slice is stored as the history.
Trims(t) == pc[t] = "chat_trim_store" /\ pc'[t] = "general_return"

\* C12. Every trim leaves exactly the last MAX_HISTORY_MESSAGES messages of
\* the history it found, in their order, and so retains the newest exchange:
\* the trimming call's own user and assistant messages end the history.
C12_TrimDropsOldestOnly ==
    [][ \A t \in Workers :
           Trims(t) =>
              /\ conversation_history' = Last(conversation_history, MAX_HISTORY_MESSAGES)
              /\ Len(conversation_history') = MAX_HISTORY_MESSAGES
              /\ conversation_history'[MAX_HISTORY_MESSAGES - 1] =
                    Message("user", state[t].message, request[t].caller)
              /\ conversation_history'[MAX_HISTORY_MESSAGES] =
                    Message("assistant", assistant_message[t], request[t].caller)
      ]_vars

\* A worker's step in which the upstream call of ChatAgent.chat raises.
FailsUpstream(t) == pc[t] = "chat_complete" /\ pc'[t] = "return"

\* The user messages of a history that another user message follows: no
\* assistant message answered them.
Unanswered(h) ==
    Cardinality({ i \in 1..(Len(h) - 1) : h[i].role = "user" /\ h[i + 1].role = "user" })

\* h is an initial part of g.
IsPrefix(h, g) == Len(h) <= Len(g) /\ \A i \in 1..Len(h) : h[i] = g[i]

\* C13, as stated. When the upstream call raises, the history is the history
\* the call found plus its user message, which is what the call sent upstream,
\* and the unanswered user message is sent by every later call: it never
\* leaves the history.
C13_Original ==
    [][ /\ \A t \in Workers :
              FailsUpstream(t) =>
                 /\ conversation_history' = conversation_history
                 /\ conversation_history = Tail(messages[t])
                 /\ conversation_history[Len(conversation_history)] =
                       Message("user", state[t].message, request[t].caller)
        /\ Unanswered(conversation_history') >= Unanswered(conversation_history)
      ]_vars

\* C13, amended. A call whose upstream call raises has appended its user
\* message and changes the history no further: no assistant message, no trim,
\* no removal. Messages leave the history only by a trim, and every call sends
\* the whole history of the moment upstream: the unanswered user message is
\* sent by the later calls until a trim drops it.
C13_Amended ==
    [][ /\ \A t \in Workers :
              /\ (pc[t] = "general" /\ pc'[t] = "chat_messages") =>
                    conversation_history' =
                       Append(conversation_history,
                              Message("user", state[t].message, request[t].caller))
              /\ FailsUpstream(t) =>
                    /\ conversation_history' = conversation_history
                    /\ response'[t].code # "OK"
              /\ (pc[t] = "chat_messages" /\ pc'[t] = "chat_complete") =>
                    Tail(messages'[t]) = conversation_history
        /\ \/ IsPrefix(conversation_history, conversation_history')
           \/ \E t \in Workers : Trims(t)
        /\ Unanswered(conversation_history') < Unanswered(conversation_history) =>
              \E t \in Workers : Trims(t)
      ]_vars

\* C13 witness: a call is sending upstream a history that holds the unanswered
\* user message of an earlier, failed call.
C13_Witness ==
    \E t \in Workers :
        /\ pc[t] = "chat_complete"
        /\ Unanswered(Tail(messages[t])) > 0
        /\ Tail(messages[t]) = conversation_history

====
